---- MODULE Spec2Model ----
(***************************************************************************)
(* Model of the finch binding extractor (src/src/lib.rs): the namespace-   *)
(* scoped walker process_entity over a clang declaration tree, the         *)
(* identifier decoder that splits mangled names on "___", and the class    *)
(* table it accumulates.                                                   *)
(*                                                                         *)
(* Strings that the code parses (identifiers, namespace names) are         *)
(* sequences of one-character strings, so that starts_with, split and      *)
(* format! are computed character by character.  Option<T> is a sequence   *)
(* of length 0 (None) or 1 (Some).  A Rust index parts[k] is parts[k+1]    *)
(* here; Field(parts, k) hides the shift.                                  *)
(***************************************************************************)
EXTENDS Integers, Sequences, FiniteSets, TLC

VARIABLES in_finch, in_internal, namespace, classes, log_enabled,
          stack, status, panic, warning, output,
          aliases_seen, functions_seen

vars == <<in_finch, in_internal, namespace, classes, log_enabled,
          stack, status, panic, warning, output,
          aliases_seen, functions_seen>>

(***************************************************************************)
(* Bounds of the model.                                                    *)
(***************************************************************************)
MaxDepth == 4
MaxTypeAliases == 2
MaxFunctions == 2

(***************************************************************************)
(* Option<T>.                                                              *)
(***************************************************************************)
None == <<>>
Some(v) == <<v>>
IsSome(o) == o /= <<>>
IsNone(o) == o = <<>>
Unwrap(o) == o[1]

(***************************************************************************)
(* String literals of the source, as character sequences.                  *)
(***************************************************************************)
SEP == <<"_", "_", "_">>
PREFIX == <<"_", "_", "_", "f", "i", "n", "c", "h", "_", "b", "i", "n", "d", "g", "e", "n">>
FINCH == <<"f", "i", "n", "c", "h">>
BINDGEN == <<"b", "i", "n", "d", "g", "e", "n">>
CLASS == <<"c", "l", "a", "s", "s">>
DROP == <<"d", "r", "o", "p">>
METHOD == <<"m", "e", "t", "h", "o", "d">>
METHOD_CONSUME == <<"m", "e", "t", "h", "o", "d", "_", "c", "o", "n", "s", "u", "m", "e">>
STATIC == <<"s", "t", "a", "t", "i", "c">>
NEW_KW == <<"n", "e", "w">>
GETTER == <<"g", "e", "t", "t", "e", "r">>
SETTER == <<"s", "e", "t", "t", "e", "r">>
QUAL == <<"f", "i", "n", "c", "h", ":", ":", "b", "i", "n", "d", "g", "e", "n", ":", ":">>
COLONS == <<":", ":">>

(***************************************************************************)
(* str::starts_with and str::split(pattern): the fields between            *)
(* successive non-overlapping leftmost matches of the pattern; a leading   *)
(* or trailing match yields an empty field.                                *)
(***************************************************************************)
StartsWith(s, p) == Len(s) >= Len(p) /\ SubSeq(s, 1, Len(p)) = p

MatchAt(s, p, i) == i + Len(p) - 1 <= Len(s) /\ SubSeq(s, i, i + Len(p) - 1) = p

RECURSIVE SplitFrom(_, _, _, _, _)
SplitFrom(s, p, i, cur, acc) ==
  IF i > Len(s) THEN Append(acc, cur)
  ELSE IF MatchAt(s, p, i) THEN SplitFrom(s, p, i + Len(p), <<>>, Append(acc, cur))
  ELSE SplitFrom(s, p, i + 1, Append(cur, s[i]), acc)

\* a split that drops the empty field before a leading delimiter
SplitSkipLeadingEmpty(s, p) ==
  LET all == SplitFrom(s, p, 1, <<>>, <<>>)
  IN IF Len(all) > 1 /\ all[1] = <<>> THEN Tail(all) ELSE all

\* str::split(p).collect()
Split(s, p) == SplitFrom(s, p, 1, <<>>, <<>>)

HasField(parts, k) == Len(parts) > k
Field(parts, k) == parts[k + 1]

\* format!("finch::bindgen::{}::{}", ns, name)
Qualified(ns, name) == QUAL \o ns \o COLONS \o name

(***************************************************************************)
(* Result<T, E>, and panics: the message and the source line that raises   *)
(* it.                                                                     *)
(***************************************************************************)
Ok(v) == [ok |-> TRUE, val |-> v]
Err(m) == [ok |-> FALSE, msg |-> m]
ResultOk(r) == IF r.ok THEN Some(r.val) ELSE None

UNWRAP_NONE == "called Option::unwrap() on a None value"
INDEX_OOB == "index out of bounds"
REMOVE_OOB == "removal index (is 0) should be < len"
CLASS_NOT_FOUND == "failed to find class"

Panic(m, line) == [msg |-> m, line |-> line]
Fail(m, line) == [ok |-> FALSE, panic |-> Panic(m, line)]

(***************************************************************************)
(* clang type handles: display name, kind, optional pointee, canonical     *)
(* type (None when the type is its own canonical type) and the fallible    *)
(* size query.                                                             *)
(***************************************************************************)
IntTy == [display_name |-> "int", kind |-> "Int", pointee |-> None,
          canonical |-> None, sizeof |-> Ok(4)]
WidgetTy == [display_name |-> "Widget", kind |-> "Record", pointee |-> None,
             canonical |-> None, sizeof |-> Err("Incomplete")]
WidgetPtrTy == [display_name |-> "Widget *", kind |-> "Pointer", pointee |-> Some(WidgetTy),
                canonical |-> None, sizeof |-> Ok(8)]
VoidTy == [display_name |-> "void", kind |-> "Void", pointee |-> None,
           canonical |-> None, sizeof |-> Err("Incomplete")]
Int32Ty == [display_name |-> "int32_t", kind |-> "Typedef", pointee |-> None,
            canonical |-> Some(IntTy), sizeof |-> Ok(4)]

CanonicalType(value) == IF IsNone(value.canonical) THEN value ELSE Unwrap(value.canonical)

RECURSIVE FinchTypeFrom(_)
FinchTypeFrom(value) ==
  [display_name |-> value.display_name,
   kind |-> value.kind,
   pointee_type |-> IF IsSome(value.pointee)
                    THEN Some(FinchTypeFrom(Unwrap(value.pointee))) ELSE None,
   canonical_type |-> IF CanonicalType(value) /= value
                      THEN Some(FinchTypeFrom(CanonicalType(value))) ELSE None,
   sizeof |-> ResultOk(value.sizeof)]

(***************************************************************************)
(* Entities of the declaration tree, as the walker reads them: kind, name  *)
(* (get_name / get_display_name, None for an anonymous entity), arguments  *)
(* (display name and type, each optional), result type and comment.        *)
(***************************************************************************)
Arg(n, t) == [name |-> n, type |-> t]
Entity(k, n, a, r, c) == [kind |-> k, name |-> n, args |-> a, result |-> r, comment |-> c]

ArgNames(args) == [i \in 1..Len(args) |-> Unwrap(args[i].name)]
ArgTypes(args) == [i \in 1..Len(args) |-> FinchTypeFrom(Unwrap(args[i].type))]
ArgsResolved(args) == \A i \in 1..Len(args) : IsSome(args[i].name) /\ IsSome(args[i].type)

(***************************************************************************)
(* Member descriptors.  Each constructor returns Ok(record) or the panic   *)
(* it raises.                                                              *)
(***************************************************************************)
\* for arg in args { arg.get_display_name().unwrap(); arg.get_type().unwrap() }
RECURSIVE ArgsPanic(_, _, _)
ArgsPanic(args, name_line, type_line) ==
  IF args = <<>> THEN None
  ELSE IF IsNone(Head(args).name) THEN Some(Panic(UNWRAP_NONE, name_line))
  ELSE IF IsNone(Head(args).type) THEN Some(Panic(UNWRAP_NONE, type_line))
  ELSE ArgsPanic(Tail(args), name_line, type_line)

FinchNew(class_name, fn_name, c_fn_name, e) ==
  LET p == ArgsPanic(e.args, 57, 58) IN
  IF IsSome(p) THEN [ok |-> FALSE, panic |-> Unwrap(p)]
  ELSE Ok([class_name |-> class_name, fn_name |-> fn_name, c_fn_name |-> c_fn_name,
           arg_names |-> ArgNames(e.args), arg_types |-> ArgTypes(e.args),
           comments |-> e.comment])

FinchDrop(class_name, fn_name, c_fn_name) ==
  [class_name |-> class_name, fn_name |-> fn_name, c_fn_name |-> c_fn_name]

\* Vec::swap_remove(0): the last element takes the place of the removed one
SwapRemoveFirst(args) ==
  IF Len(args) <= 1 THEN <<>> ELSE <<args[Len(args)]>> \o SubSeq(args, 2, Len(args) - 1)

\* Vec::remove(0)
RemoveFirst(args) == Tail(args)

\* a constructor that skips the first argument if there is one
FinchMethodSkipFirst(class_name, method_name, fn_name, c_fn_name, consume, e) ==
  LET args == IF e.args = <<>> THEN <<>> ELSE Tail(e.args)
      p == ArgsPanic(args, 100, 101) IN
  IF IsSome(p) THEN [ok |-> FALSE, panic |-> Unwrap(p)]
  ELSE IF IsNone(e.result) THEN Fail(UNWRAP_NONE, 109)
  ELSE Ok([class_name |-> class_name, method_name |-> method_name,
           fn_name |-> fn_name, c_fn_name |-> c_fn_name,
           ret_type |-> FinchTypeFrom(Unwrap(e.result)),
           arg_names |-> ArgNames(args), arg_types |-> ArgTypes(args),
           comments |-> e.comment, consume |-> consume])

FinchMethod(class_name, method_name, fn_name, c_fn_name, consume, e) ==
  IF e.args = <<>> THEN Fail(REMOVE_OOB, 98)
  ELSE LET args == RemoveFirst(e.args)
           p == ArgsPanic(args, 100, 101) IN
    IF IsSome(p) THEN [ok |-> FALSE, panic |-> Unwrap(p)]
    ELSE IF IsNone(e.result) THEN Fail(UNWRAP_NONE, 109)
    ELSE Ok([class_name |-> class_name, method_name |-> method_name,
             fn_name |-> fn_name, c_fn_name |-> c_fn_name,
             ret_type |-> FinchTypeFrom(Unwrap(e.result)),
             arg_names |-> ArgNames(args), arg_types |-> ArgTypes(args),
             comments |-> e.comment, consume |-> consume])

FinchStatic(class_name, method_name, fn_name, c_fn_name, e) ==
  LET p == ArgsPanic(e.args, 135, 136) IN
  IF IsSome(p) THEN [ok |-> FALSE, panic |-> Unwrap(p)]
  ELSE IF IsNone(e.result) THEN Fail(UNWRAP_NONE, 144)
  ELSE Ok([class_name |-> class_name, method_name |-> method_name,
           fn_name |-> fn_name, c_fn_name |-> c_fn_name,
           ret_type |-> FinchTypeFrom(Unwrap(e.result)),
           arg_names |-> ArgNames(e.args), arg_types |-> ArgTypes(e.args),
           comments |-> e.comment])

FinchGetter(class_name, field_name, fn_name, c_fn_name, e) ==
  IF IsNone(e.result) THEN Fail(UNWRAP_NONE, 169)
  ELSE Ok([class_name |-> class_name, field_name |-> field_name,
           fn_name |-> fn_name, c_fn_name |-> c_fn_name,
           type_ |-> FinchTypeFrom(Unwrap(e.result)), comments |-> e.comment])

FinchSetter(class_name, field_name, fn_name, c_fn_name, e) ==
  IF Len(e.args) < 2 THEN Fail(INDEX_OOB, 192)
  ELSE IF IsNone(e.args[2].type) THEN Fail(UNWRAP_NONE, 192)
  ELSE Ok([class_name |-> class_name, field_name |-> field_name,
           fn_name |-> fn_name, c_fn_name |-> c_fn_name,
           type_ |-> FinchTypeFrom(Unwrap(e.args[2].type)), comments |-> e.comment])

\* a constructor with its two names exchanged
FinchClassNamesSwapped(name, c_name, e) ==
  [name |-> c_name, c_name |-> name, comments |-> e.comment,
   new |-> None, drop |-> None,
   statics |-> <<>>, methods |-> <<>>, getters |-> <<>>, setters |-> <<>>]

FinchClass(name, c_name, e) ==
  [name |-> name, c_name |-> c_name, comments |-> e.comment,
   new |-> None, drop |-> None,
   statics |-> <<>>, methods |-> <<>>, getters |-> <<>>, setters |-> <<>>]

(***************************************************************************)
(* The class table, HashMap<String, FinchClass>: a function from the keys  *)
(* present to their descriptors.                                           *)
(***************************************************************************)
EmptyMap == [k \in {} |-> None]
ContainsKey(map, k) == k \in DOMAIN map
Put(map, k, v) == [x \in DOMAIN map \cup {k} |-> IF x = k THEN v ELSE map[x]]

\* an insert that replaces the entry already present
EntryOverwrite(map, k, v) == Put(map, k, v)

\* HashMap::entry(k).or_insert(v)
EntryOrInsert(map, k, v) == IF ContainsKey(map, k) THEN map ELSE Put(map, k, v)

\* a lookup that hands out a descriptor rebuilt from the key
GetMutRebuilt(map, k) ==
  IF ContainsKey(map, k) THEN Some([map[k] EXCEPT !.c_name = k, !.comments = None])
  ELSE None

\* a lookup that makes up a descriptor for an absent key
GetMutOrDefault(map, k) ==
  IF ContainsKey(map, k) THEN Some(map[k])
  ELSE Some([name |-> k, c_name |-> k, comments |-> None, new |-> None, drop |-> None,
             statics |-> <<>>, methods |-> <<>>, getters |-> <<>>, setters |-> <<>>])

\* HashMap::get_mut(&k)
GetMut(map, k) == IF ContainsKey(map, k) THEN Some(map[k]) ELSE None

\* an insert at the head of the list
PushFront(list, x) == <<x>> \o list

\* Vec::push
Push(list, x) == Append(list, x)

\* an assignment that keeps a slot already filled
AssignFirstWins(slot, v) == IF IsSome(slot) THEN slot ELSE Some(v)

\* slot = Some(v)
Assign(slot, v) == Some(v)

(***************************************************************************)
(* Input alphabet: the names and entities the walker is fed.               *)
(***************************************************************************)
FB == <<"f", "i", "n", "c", "h", "_", "b", "i", "n", "d", "g", "e", "n">>
PKG == <<"p", "k", "g">>
OTHER_PKG == <<"o", "t", "h", "e", "r">>
WIDGET == <<"W", "i", "d", "g", "e", "t">>
GADGET == <<"G", "a", "d", "g", "e", "t">>
FUNC == <<"f", "u", "n", "c">>
BOGUS == <<"b", "o", "g", "u", "s">>
V2 == <<"v", "2">>
N_GET == <<"g", "e", "t">>
N_TAKE == <<"t", "a", "k", "e">>
N_MAKE == <<"m", "a", "k", "e">>
N_COUNT == <<"c", "o", "u", "n", "t">>
N_MAIN == <<"m", "a", "i", "n">>

RECURSIVE Join(_, _)
Join(fields, p) ==
  IF Len(fields) = 1 THEN fields[1] ELSE fields[1] \o p \o Join(Tail(fields), p)

\* "___finch_bindgen" followed by the given fields, each introduced by "___"
Ident(fields) == Join(<<<<>>, FB>> \o fields, SEP)

NamespaceNames == {Some(FINCH), Some(BINDGEN), Some(PKG), Some(OTHER_PKG), None}

AliasNames ==
  { WIDGET,
    Ident(<<>>),
    Ident(<<CLASS, WIDGET>>),
    Ident(<<PKG, CLASS, WIDGET>>),
    Ident(<<PKG, CLASS, GADGET>>),
    Ident(<<PKG, CLASS, WIDGET, V2>>),
    Ident(<<OTHER_PKG, CLASS, WIDGET>>),
    Ident(<<OTHER_PKG>>),
    Ident(<<PKG, FUNC, WIDGET>>),
    Ident(<<PKG, FUNC>>),
    Ident(<<PKG>>),
    Ident(<<PKG, CLASS>>) }

ArgSelf == Arg(Some("self"), Some(WidgetPtrTy))
ArgX == Arg(Some("x"), Some(Int32Ty))
ArgN == Arg(Some("n"), Some(IntTy))
ArgBad == Arg(Some("y"), None)
ArgAnon == Arg(None, Some(IntTy))


\* identifiers the decoder rejects, or fails on, before it reads any argument
PlainFnNames ==
  { N_MAIN,
    Ident(<<>>),
    Ident(<<OTHER_PKG, CLASS, WIDGET, DROP>>),
    Ident(<<OTHER_PKG>>),
    Ident(<<PKG>>),
    Ident(<<PKG, FUNC, WIDGET>>),
    Ident(<<PKG, FUNC>>),
    Ident(<<PKG, CLASS>>),
    Ident(<<PKG, CLASS, WIDGET>>),
    Ident(<<PKG, CLASS, WIDGET, BOGUS, N_GET>>),
    Ident(<<PKG, CLASS, WIDGET, METHOD>>),
    Ident(<<PKG, CLASS, WIDGET, STATIC>>) }

TranslationUnit == Entity("TranslationUnit", Some(<<"h">>), <<>>, None, None)

Namespaces == {Entity("Namespace", n, <<>>, None, None) : n \in NamespaceNames}
UnexposedDecls == {Entity("UnexposedDecl", None, <<>>, None, None)}
TypeAliasDecls == {Entity("TypeAliasDecl", Some(n), <<>>, None, Some("doc")) : n \in AliasNames}
Fn(fields, args, result) == Entity("FunctionDecl", Some(Ident(fields)), args, result, Some("doc"))

\* member declarations: well-formed ones and ones with a missing receiver,
\* an unnamed argument or an unresolved argument or result type
MemberFunctionDecls ==
  { Fn(<<PKG, CLASS, WIDGET, DROP>>, <<ArgSelf>>, Some(VoidTy)),
    Fn(<<PKG, CLASS, GADGET, DROP>>, <<ArgSelf>>, Some(VoidTy)),
    Fn(<<PKG, CLASS, WIDGET, METHOD, N_GET>>, <<>>, Some(IntTy)),
    Fn(<<PKG, CLASS, WIDGET, METHOD, N_GET>>, <<ArgSelf>>, Some(IntTy)),
    Fn(<<PKG, CLASS, WIDGET, METHOD, N_GET>>, <<ArgSelf, ArgX>>, Some(IntTy)),
    Fn(<<PKG, CLASS, WIDGET, METHOD, N_GET>>, <<ArgSelf, ArgX, ArgN>>, Some(IntTy)),
    Fn(<<PKG, CLASS, WIDGET, METHOD, N_GET>>, <<ArgSelf, ArgBad>>, Some(IntTy)),
    Fn(<<PKG, CLASS, WIDGET, METHOD, N_GET>>, <<ArgSelf>>, None),
    Fn(<<PKG, CLASS, WIDGET, METHOD_CONSUME, N_TAKE>>, <<>>, Some(VoidTy)),
    Fn(<<PKG, CLASS, WIDGET, METHOD_CONSUME, N_TAKE>>, <<ArgSelf>>, Some(VoidTy)),
    Fn(<<PKG, CLASS, WIDGET, METHOD_CONSUME, N_TAKE>>, <<ArgSelf, ArgN, ArgX>>, Some(VoidTy)),
    Fn(<<PKG, CLASS, WIDGET, STATIC, NEW_KW>>, <<>>, Some(WidgetPtrTy)),
    Fn(<<PKG, CLASS, WIDGET, STATIC, NEW_KW>>, <<ArgX>>, Some(WidgetPtrTy)),
    Fn(<<PKG, CLASS, WIDGET, STATIC, NEW_KW>>, <<ArgX, ArgN>>, Some(WidgetPtrTy)),
    Fn(<<PKG, CLASS, WIDGET, STATIC, NEW_KW>>, <<ArgAnon>>, Some(WidgetPtrTy)),
    Fn(<<PKG, CLASS, WIDGET, STATIC, N_MAKE>>, <<ArgX>>, Some(IntTy)),
    Fn(<<PKG, CLASS, WIDGET, STATIC, N_MAKE>>, <<ArgN, ArgX>>, Some(IntTy)),
    Fn(<<PKG, CLASS, WIDGET, STATIC, N_MAKE>>, <<ArgBad>>, Some(IntTy)),
    Fn(<<PKG, CLASS, WIDGET, GETTER, N_COUNT>>, <<ArgSelf>>, Some(IntTy)),
    Fn(<<PKG, CLASS, WIDGET, GETTER, N_COUNT>>, <<ArgSelf>>, None),
    Fn(<<PKG, CLASS, WIDGET, SETTER, N_COUNT>>, <<ArgSelf, ArgX>>, Some(VoidTy)),
    Fn(<<PKG, CLASS, WIDGET, SETTER, N_COUNT>>, <<ArgSelf>>, Some(VoidTy)) }

FunctionDecls ==
  {Entity("FunctionDecl", Some(n), <<ArgSelf>>, Some(IntTy), None) : n \in PlainFnNames}
  \cup MemberFunctionDecls
OtherDecls == {Entity("StructDecl", Some(WIDGET), <<>>, None, None)}

(***************************************************************************)
(* ParserState, with the logger setting the warn! macro consults.  Every   *)
(* match arm of process_entity maps a state and an entity to a result: the *)
(* state it leaves, the panic or warning it raises (warn! evaluates its    *)
(* arguments only when the logger is enabled), whether it recurses into    *)
(* the children, and whether a declaration was decoded to the end.         *)
(***************************************************************************)
ParserState(f, i, n, c, l) ==
  [in_finch |-> f, in_internal |-> i, namespace |-> n, classes |-> c, log_enabled |-> l]

Warning(msg, args) == [msg |-> msg, args |-> args]

Returned(st, recurse, accepted) ==
  [st |-> st, panic |-> None, warning |-> None, recurse |-> recurse, accepted |-> accepted]
Panicked(st, m, line) ==
  [st |-> st, panic |-> Some(Panic(m, line)), warning |-> None,
   recurse |-> FALSE, accepted |-> FALSE]
\* a warning after which the children of the node are still visited
WarnedAndRecursed(st, msg, args) ==
  [st |-> st, panic |-> None, warning |-> Some(Warning(msg, args)),
   recurse |-> TRUE, accepted |-> FALSE]

Warned(st, msg, args) ==
  [st |-> st, panic |-> None, warning |-> Some(Warning(msg, args)),
   recurse |-> FALSE, accepted |-> FALSE]

UNKNOWN_NAMESPACE == "unknown namespace found"
UNKNOWN_IDENTIFIER == "unknown identifier found"
NAMESPACE_MISMATCH == "namespace mismatch"

\* ty_name.split("___").collect(), tabulated over the identifiers of the alphabet
SplitName ==
  [n \in AliasNames \cup {Unwrap(e.name) : e \in FunctionDecls} |-> Split(n, SEP)]

\* warn!("namespace mismatch, expected '{}', got '{}'", namespace, parts[3])
Mismatch(st, parts, line) ==
  IF ~st.log_enabled THEN Warned(st, NAMESPACE_MISMATCH, <<>>)
  ELSE IF ~HasField(parts, 3) THEN Panicked(st, INDEX_OOB, line)
  ELSE Warned(st, NAMESPACE_MISMATCH, <<Unwrap(st.namespace), Field(parts, 3)>>)

\* warn!("unknown identifier found '{}'", x)
UnknownIdentifier(st, x) ==
  Warned(st, UNKNOWN_IDENTIFIER, IF st.log_enabled THEN <<x>> ELSE <<>>)

\* a handler whose third arm records every namespace met once both flags are set
NamespaceLastWins(st, e) ==
  IF ~st.in_finch /\ IsNone(e.name) THEN Panicked(st, UNWRAP_NONE, 249)
  ELSE IF ~st.in_finch /\ Unwrap(e.name) = FINCH THEN
    Returned([st EXCEPT !.in_finch = TRUE], TRUE, FALSE)
  ELSE IF ~st.in_internal /\ IsNone(e.name) THEN Panicked(st, UNWRAP_NONE, 252)
  ELSE IF ~st.in_internal /\ Unwrap(e.name) = BINDGEN THEN
    Returned([st EXCEPT !.in_internal = TRUE], TRUE, FALSE)
  ELSE IF st.in_finch /\ st.in_internal THEN
    IF IsNone(e.name) THEN Panicked(st, UNWRAP_NONE, 256)
    ELSE Returned([st EXCEPT !.namespace = Some(Unwrap(e.name))], TRUE, FALSE)
  ELSE IF st.in_finch THEN
    IF ~st.log_enabled THEN Warned(st, UNKNOWN_NAMESPACE, <<>>)
    ELSE IF IsNone(e.name) THEN Panicked(st, UNWRAP_NONE, 259)
    ELSE Warned(st, UNKNOWN_NAMESPACE, <<Unwrap(e.name)>>)
  ELSE Returned(st, FALSE, FALSE)

Namespace(st, e) ==
  IF ~st.in_finch /\ IsNone(e.name) THEN Panicked(st, UNWRAP_NONE, 249)
  ELSE IF ~st.in_finch /\ Unwrap(e.name) = FINCH THEN
    Returned([st EXCEPT !.in_finch = TRUE], TRUE, FALSE)
  ELSE IF ~st.in_internal /\ IsNone(e.name) THEN Panicked(st, UNWRAP_NONE, 252)
  ELSE IF ~st.in_internal /\ Unwrap(e.name) = BINDGEN THEN
    Returned([st EXCEPT !.in_internal = TRUE], TRUE, FALSE)
  ELSE IF st.in_finch /\ st.in_internal /\ IsNone(st.namespace) THEN
    IF IsNone(e.name) THEN Panicked(st, UNWRAP_NONE, 256)
    ELSE Returned([st EXCEPT !.namespace = Some(Unwrap(e.name))], TRUE, FALSE)
  ELSE IF st.in_finch THEN
    IF ~st.log_enabled THEN Warned(st, UNKNOWN_NAMESPACE, <<>>)
    ELSE IF IsNone(e.name) THEN Panicked(st, UNWRAP_NONE, 259)
    ELSE Warned(st, UNKNOWN_NAMESPACE, <<Unwrap(e.name)>>)
  ELSE Returned(st, FALSE, FALSE)

UnexposedDecl(st, e) == Returned(st, st.in_finch /\ st.in_internal, FALSE)

\* a decoder that takes every category for `class`: the test at 286 is left out
TypeAliasDeclAnyCategory(st, e) ==
  IF ~st.in_finch \/ ~st.in_internal THEN Returned(st, FALSE, FALSE)
  ELSE IF IsNone(e.name) THEN Panicked(st, UNWRAP_NONE, 274)
  ELSE IF ~StartsWith(Unwrap(e.name), PREFIX) THEN UnknownIdentifier(st, Unwrap(e.name))
  ELSE LET parts == SplitName[Unwrap(e.name)] IN
    IF ~HasField(parts, 2) THEN Panicked(st, INDEX_OOB, 281)
    ELSE IF IsNone(st.namespace) THEN Panicked(st, UNWRAP_NONE, 281)
    ELSE IF Field(parts, 2) /= Unwrap(st.namespace) THEN Mismatch(st, parts, 282)
    ELSE IF ~HasField(parts, 4) THEN Panicked(st, INDEX_OOB, 291)
    ELSE LET class_name == Field(parts, 4)
             c_name == Qualified(Unwrap(st.namespace), Unwrap(e.name)) IN
      Returned([st EXCEPT !.classes =
                  EntryOrInsert(st.classes, class_name, FinchClass(class_name, c_name, e))],
               FALSE, TRUE)

TypeAliasDecl(st, e) ==
  IF ~st.in_finch \/ ~st.in_internal THEN Returned(st, FALSE, FALSE)
  ELSE IF IsNone(e.name) THEN Panicked(st, UNWRAP_NONE, 274)
  ELSE IF ~StartsWith(Unwrap(e.name), PREFIX) THEN UnknownIdentifier(st, Unwrap(e.name))
  ELSE LET parts == SplitName[Unwrap(e.name)] IN
    IF ~HasField(parts, 2) THEN Panicked(st, INDEX_OOB, 281)
    ELSE IF IsNone(st.namespace) THEN Panicked(st, UNWRAP_NONE, 281)
    ELSE IF Field(parts, 2) /= Unwrap(st.namespace) THEN Mismatch(st, parts, 282)
    ELSE IF ~HasField(parts, 3) THEN Panicked(st, INDEX_OOB, 286)
    ELSE IF Field(parts, 3) /= CLASS THEN UnknownIdentifier(st, Field(parts, 3))
    ELSE IF ~HasField(parts, 4) THEN Panicked(st, INDEX_OOB, 291)
    ELSE LET class_name == Field(parts, 4)
             c_name == Qualified(Unwrap(st.namespace), Unwrap(e.name)) IN
      Returned([st EXCEPT !.classes =
                  EntryOrInsert(st.classes, class_name, FinchClass(class_name, c_name, e))],
               FALSE, TRUE)

\* the class with a member stored into it, or the panic of the member's constructor
Stored(st, class_name, built, updated) ==
  IF ~built.ok THEN Panicked(st, built.panic.msg, built.panic.line)
  ELSE Returned([st EXCEPT !.classes = Put(st.classes, class_name, updated)], FALSE, TRUE)

\* match parts[5] { ... } on the class found in the table
Dispatch(st, parts, class_name, class, fn_name, c_fn_name, e) ==
  IF ~HasField(parts, 5) THEN Panicked(st, INDEX_OOB, 327)
  ELSE LET k == Field(parts, 5) IN
    IF k = DROP THEN
      Stored(st, class_name, Ok(FinchDrop(class_name, fn_name, c_fn_name)),
        [class EXCEPT !.drop = Assign(class.drop, FinchDrop(class_name, fn_name, c_fn_name))])
    ELSE IF k = METHOD \/ k = METHOD_CONSUME THEN
      IF ~HasField(parts, 6) THEN Panicked(st, INDEX_OOB, IF k = METHOD THEN 337 ELSE 341)
      ELSE LET b == FinchMethod(class_name, Field(parts, 6), fn_name, c_fn_name,
                                k = METHOD_CONSUME, e) IN
        Stored(st, class_name, b,
          IF b.ok THEN [class EXCEPT !.methods = Push(class.methods, b.val)] ELSE class)
    ELSE IF k = STATIC THEN
      IF ~HasField(parts, 6) THEN Panicked(st, INDEX_OOB, 345)
      ELSE IF Field(parts, 6) = NEW_KW THEN
        LET b == FinchNew(class_name, fn_name, c_fn_name, e) IN
        Stored(st, class_name, b,
          IF b.ok THEN [class EXCEPT !.new = Assign(class.new, b.val)] ELSE class)
      ELSE
        LET b == FinchStatic(class_name, Field(parts, 6), fn_name, c_fn_name, e) IN
        Stored(st, class_name, b,
          IF b.ok THEN [class EXCEPT !.statics = Push(class.statics, b.val)] ELSE class)
    ELSE IF k = GETTER THEN
      IF ~HasField(parts, 6) THEN Panicked(st, INDEX_OOB, 353)
      ELSE LET b == FinchGetter(class_name, Field(parts, 6), fn_name, c_fn_name, e) IN
        Stored(st, class_name, b,
          IF b.ok THEN [class EXCEPT !.getters = Push(class.getters, b.val)] ELSE class)
    ELSE IF k = SETTER THEN
      IF ~HasField(parts, 6) THEN Panicked(st, INDEX_OOB, 357)
      ELSE LET b == FinchSetter(class_name, Field(parts, 6), fn_name, c_fn_name, e) IN
        Stored(st, class_name, b,
          IF b.ok THEN [class EXCEPT !.setters = Push(class.setters, b.val)] ELSE class)
    ELSE UnknownIdentifier(st, k)

FunctionDecl(st, e) ==
  IF ~st.in_finch \/ ~st.in_internal THEN Returned(st, FALSE, FALSE)
  ELSE IF IsNone(e.name) THEN Panicked(st, UNWRAP_NONE, 308)
  ELSE IF ~StartsWith(Unwrap(e.name), PREFIX) THEN UnknownIdentifier(st, Unwrap(e.name))
  ELSE LET c_fn_name == Unwrap(e.name)
           parts == SplitName[c_fn_name] IN
    IF ~HasField(parts, 2) THEN Panicked(st, INDEX_OOB, 315)
    ELSE IF IsNone(st.namespace) THEN Panicked(st, UNWRAP_NONE, 315)
    ELSE IF Field(parts, 2) /= Unwrap(st.namespace) THEN Mismatch(st, parts, 316)
    ELSE IF ~HasField(parts, 3) THEN Panicked(st, INDEX_OOB, 320)
    ELSE IF Field(parts, 3) /= CLASS THEN UnknownIdentifier(st, Field(parts, 3))
    ELSE IF ~HasField(parts, 4) THEN Panicked(st, INDEX_OOB, 324)
    ELSE LET class_name == Field(parts, 4)
             found == GetMut(st.classes, class_name) IN
      IF IsNone(found) THEN Panicked(st, CLASS_NOT_FOUND, 325)
      ELSE Dispatch(st, parts, class_name, Unwrap(found),
                    Qualified(Unwrap(st.namespace), c_fn_name), c_fn_name, e)

\* match e.get_kind() { ... } for every kind but the translation unit
ProcessEntity(st, e) ==
  IF e.kind = "Namespace" THEN Namespace(st, e)
  ELSE IF e.kind = "UnexposedDecl" THEN UnexposedDecl(st, e)
  ELSE IF e.kind = "TypeAliasDecl" THEN TypeAliasDecl(st, e)
  ELSE IF e.kind = "FunctionDecl" THEN FunctionDecl(st, e)
  ELSE Returned(st, FALSE, FALSE)

(***************************************************************************)
(* The walker.  stack holds the entities whose children are being          *)
(* iterated (the active process_children / TranslationUnit loops); each    *)
(* action below is one process_entity call on the next child, drawn from   *)
(* the input alphabet, or the end of the innermost loop.  warning is the   *)
(* warning of the latest call, panic the panic that ended the run.         *)
(***************************************************************************)
State == ParserState(in_finch, in_internal, namespace, classes, log_enabled)

Init ==
  /\ in_finch = FALSE
  /\ in_internal = FALSE
  /\ namespace = None
  /\ classes = EmptyMap
  /\ log_enabled \in BOOLEAN
  /\ stack = <<>>
  /\ status = "init"
  /\ panic = None
  /\ warning = None
  /\ output = None
  /\ aliases_seen = 0
  /\ functions_seen = 0

Visiting == status = "running" /\ stack /= <<>>

Commit(e, r) ==
  /\ in_finch' = r.st.in_finch
  /\ in_internal' = r.st.in_internal
  /\ namespace' = r.st.namespace
  /\ classes' = r.st.classes
  /\ warning' = r.warning
  /\ panic' = r.panic
  /\ status' = IF IsSome(r.panic) THEN "aborted" ELSE status
  /\ stack' = IF r.recurse THEN Append(stack, e) ELSE stack
  /\ UNCHANGED <<log_enabled, output>>

ProcessTranslationUnit ==
  /\ status = "init"
  /\ status' = "running"
  /\ stack' = <<TranslationUnit>>
  /\ UNCHANGED <<in_finch, in_internal, namespace, classes, log_enabled, panic,
                 warning, output, aliases_seen, functions_seen>>

ProcessNamespace(e) ==
  /\ Visiting
  /\ e.kind = "Namespace"
  /\ Len(stack) < MaxDepth
  /\ \E r \in {ProcessEntity(State, e)} : Commit(e, r)
  /\ UNCHANGED <<aliases_seen, functions_seen>>

ProcessUnexposedDecl(e) ==
  /\ Visiting
  /\ e.kind = "UnexposedDecl"
  /\ Len(stack) < MaxDepth
  /\ \E r \in {ProcessEntity(State, e)} : Commit(e, r)
  /\ UNCHANGED <<aliases_seen, functions_seen>>

ProcessTypeAliasDecl(e) ==
  /\ Visiting
  /\ e.kind = "TypeAliasDecl"
  /\ aliases_seen < MaxTypeAliases
  /\ \E r \in {ProcessEntity(State, e)} :
       /\ Commit(e, r)
       /\ aliases_seen' = IF r.accepted THEN aliases_seen + 1 ELSE aliases_seen
  /\ UNCHANGED functions_seen

ProcessFunctionDecl(e) ==
  /\ Visiting
  /\ e.kind = "FunctionDecl"
  /\ functions_seen < MaxFunctions
  /\ \E r \in {ProcessEntity(State, e)} :
       /\ Commit(e, r)
       /\ functions_seen' = IF r.accepted THEN functions_seen + 1 ELSE functions_seen
  /\ UNCHANGED aliases_seen

ProcessOther(e) ==
  /\ Visiting
  /\ e.kind \notin {"Namespace", "UnexposedDecl", "TypeAliasDecl", "FunctionDecl"}
  /\ \E r \in {ProcessEntity(State, e)} : Commit(e, r)
  /\ UNCHANGED <<aliases_seen, functions_seen>>

\* the innermost loop over children ends; the outermost one ends the run
EndChildren ==
  /\ Visiting
  /\ stack' = SubSeq(stack, 1, Len(stack) - 1)
  /\ status' = IF Len(stack) = 1 THEN "done" ELSE status
  /\ output' = IF Len(stack) = 1 THEN Some([classes |-> classes]) ELSE output
  /\ UNCHANGED <<in_finch, in_internal, namespace, classes, log_enabled, panic,
                 warning, aliases_seen, functions_seen>>

Next ==
  \/ ProcessTranslationUnit
  \/ \E e \in Namespaces : ProcessNamespace(e)
  \/ \E e \in UnexposedDecls : ProcessUnexposedDecl(e)
  \/ \E e \in TypeAliasDecls : ProcessTypeAliasDecl(e)
  \/ \E e \in FunctionDecls : ProcessFunctionDecl(e)
  \/ \E e \in OtherDecls : ProcessOther(e)
  \/ EndChildren

Spec == Init /\ [][Next]_vars

TypeOK ==
  /\ in_finch \in BOOLEAN
  /\ in_internal \in BOOLEAN
  /\ status \in {"init", "running", "done", "aborted"}
  /\ Len(stack) <= MaxDepth

(***************************************************************************)
(* Vocabulary of the properties.  A declaration of the alphabet is paired  *)
(* with what its identifier is: prefixed or not, and the fields between    *)
(* the "___" delimiters.                                                   *)
(***************************************************************************)
Decoded(e) ==
  [e |-> e,
   prefixed |-> IsSome(e.name) /\ StartsWith(Unwrap(e.name), PREFIX),
   parts |-> IF IsSome(e.name) THEN Split(Unwrap(e.name), SEP) ELSE <<>>]
DecodedTypeAliasDecls == {Decoded(e) : e \in TypeAliasDecls}
DecodedFunctionDecls == {Decoded(e) : e \in FunctionDecls}
DecodedDecls == DecodedTypeAliasDecls \cup DecodedFunctionDecls

Decls == TypeAliasDecls \cup FunctionDecls
ProcessDecl(e) == ProcessTypeAliasDecl(e) \/ ProcessFunctionDecl(e)
BothFlags == in_finch /\ in_internal
Eligible == in_finch /\ in_internal /\ IsSome(namespace)
Aborted == status = "aborted"
IsPrefix(s, t) == Len(s) <= Len(t) /\ SubSeq(t, 1, Len(s)) = s

\* the identifier carries the prefix, the recorded package and the category `class`
ClassScoped(v) ==
  /\ Eligible
  /\ v.prefixed
  /\ HasField(v.parts, 3)
  /\ Field(v.parts, 2) = Unwrap(namespace)
  /\ Field(v.parts, 3) = CLASS

(***************************************************************************)
(* C1: a function declaration whose identifier is class-scoped and whose   *)
(* field[4] is not a key of the class table aborts the run, whatever       *)
(* field[5] is; nothing is returned, the table is left as it was, and no   *)
(* function declaration ever adds a key to the table.                      *)
(***************************************************************************)
C1_UnknownClass(v) ==
  ClassScoped(v) /\ (HasField(v.parts, 4) => ~ContainsKey(classes, Field(v.parts, 4)))

C1_MissingClassIsFatal ==
  [][/\ DOMAIN classes' /= DOMAIN classes => \A e \in FunctionDecls : ~ProcessFunctionDecl(e)
     /\ \A v \in DecodedFunctionDecls : (C1_UnknownClass(v) /\ ProcessFunctionDecl(v.e)) =>
          (status' = "aborted" /\ IsNone(output') /\ classes' = classes)]_vars

C1_Witness ==
  /\ Aborted
  /\ panic = Some(Panic(CLASS_NOT_FOUND, 325))
  /\ ContainsKey(classes, WIDGET)
  /\ ~ContainsKey(classes, GADGET)
  /\ IsNone(output)

(***************************************************************************)
(* C2: the run aborts only for an unknown class, a method without          *)
(* receiver or an unresolved type; in particular an eligible type-alias or *)
(* function declaration whose prefixed identifier has fewer fields than    *)
(* the decoder indexes is skipped with a warning and the run goes on.      *)
(***************************************************************************)
\* fields the decoder indexes on every path: 2; 3 once field 2 matches; 4 once field 3 is `class`
C2_TooFewFields(v) ==
  \/ ~HasField(v.parts, 2)
  \/ ~HasField(v.parts, 3) /\ Field(v.parts, 2) = Unwrap(namespace)
  \/ ~HasField(v.parts, 4) /\ Field(v.parts, 2) = Unwrap(namespace) /\ Field(v.parts, 3) = CLASS

C2_ShortIdentifierSkipped ==
  [][\A v \in DecodedDecls :
       (Eligible /\ v.prefixed /\ C2_TooFewFields(v) /\ ProcessDecl(v.e)) =>
          (status' = "running" /\ IsSome(warning'))]_vars

(***************************************************************************)
(* C3: a type-alias or function declaration reached while no package       *)
(* namespace is recorded is ignored: no warning, no abort, and the class   *)
(* table and the flags stay as they are.                                   *)
(***************************************************************************)
C3_IgnoredBeforePackage ==
  [][\A e \in Decls : (IsNone(namespace) /\ ProcessDecl(e)) =>
       /\ IsNone(warning')
       /\ status' = "running"
       /\ classes' = classes
       /\ in_finch' = in_finch /\ in_internal' = in_internal]_vars

(***************************************************************************)
(* C4: a type-alias or function declaration changes the class table only   *)
(* while the walker is inside a namespace `bindgen` that is itself inside  *)
(* a namespace `finch`.                                                    *)
(***************************************************************************)
IsNamespace(e, name) == e.kind = "Namespace" /\ e.name = Some(name)

InsideFinchBindgen ==
  \E i, j \in 1..Len(stack) :
    i < j /\ IsNamespace(stack[i], FINCH) /\ IsNamespace(stack[j], BINDGEN)

C4_DecodedOnlyInsideNamespaces ==
  [][(classes' /= classes /\ ~InsideFinchBindgen) => \A e \in Decls : ~ProcessDecl(e)]_vars

(***************************************************************************)
(* C5: before the root namespace is entered no namespace but `finch` is    *)
(* entered, so the internal flag is never set without the root flag.       *)
(***************************************************************************)
C5_InternalImpliesRoot == in_internal => in_finch

(***************************************************************************)
(* C6: an eligible declaration whose prefixed identifier has a field[2]    *)
(* different from the recorded package namespace, however many fields      *)
(* follow, is skipped with a warning: no abort, class table unchanged.     *)
(***************************************************************************)
C6_Mismatch(v) ==
  /\ Eligible
  /\ v.prefixed
  /\ HasField(v.parts, 2)
  /\ Field(v.parts, 2) /= Unwrap(namespace)

C6_MismatchWarnsAndSkips ==
  [][\A v \in DecodedDecls : (C6_Mismatch(v) /\ ProcessDecl(v.e)) =>
       /\ IsSome(warning')
       /\ status' = "running"
       /\ classes' = classes]_vars

(***************************************************************************)
(* C7: an accepted type-alias declaration for a class name that is already *)
(* a key of the class table leaves the whole table as it is, and the run   *)
(* goes on.                                                                *)
(***************************************************************************)
C7_KnownClass(v) ==
  ClassScoped(v) /\ HasField(v.parts, 4) /\ ContainsKey(classes, Field(v.parts, 4))

C7_RepeatedAliasIsNoOp ==
  [][\A v \in DecodedTypeAliasDecls : (C7_KnownClass(v) /\ ProcessTypeAliasDecl(v.e)) =>
       (classes' = classes /\ status' = "running" /\ IsNone(warning'))]_vars

C7_Witness ==
  /\ status = "running"
  /\ aliases_seen = 2
  /\ DOMAIN classes = {WIDGET}
  /\ classes[WIDGET].methods /= <<>>

(***************************************************************************)
(* C8: each of the lists methods, statics, getters, setters of each class  *)
(* only ever grows at its end, by exactly one entry for each accepted      *)
(* declaration of that category for that class and by nothing else, so at  *)
(* the end of the traversal it lists those declarations in visiting order. *)
(***************************************************************************)
Lists == {"methods", "statics", "getters", "setters"}

ListOf(class, l) ==
  CASE l = "methods" -> class.methods
    [] l = "statics" -> class.statics
    [] l = "getters" -> class.getters
    [] l = "setters" -> class.setters

\* the list the category keyword of a seven-field identifier selects
ListFor(parts) ==
  LET k == Field(parts, 5) IN
  IF k = METHOD \/ k = METHOD_CONSUME THEN "methods"
  ELSE IF k = STATIC /\ Field(parts, 6) /= NEW_KW THEN "statics"
  ELSE IF k = GETTER THEN "getters"
  ELSE IF k = SETTER THEN "setters"
  ELSE "none"

\* the declarations of the alphabet whose identifier selects one of the lists
C8_MemberDecls ==
  {v \in DecodedFunctionDecls :
     /\ v.prefixed
     /\ HasField(v.parts, 6)
     /\ Field(v.parts, 3) = CLASS
     /\ ListFor(v.parts) /= "none"}

\* such a declaration is eligible, of the recorded package and of a known class
C8_MemberDecl(v) ==
  /\ Eligible
  /\ Field(v.parts, 2) = Unwrap(namespace)
  /\ ContainsKey(classes, Field(v.parts, 4))

C8_Grows(c, l) == Len(ListOf(classes'[c], l)) = Len(ListOf(classes[c], l)) + 1

C8_ListsInVisitingOrder ==
  [][/\ classes' /= classes =>
          /\ \A c \in DOMAIN classes :
               /\ c \in DOMAIN classes'
               /\ \A l \in Lists :
                    /\ IsPrefix(ListOf(classes[c], l), ListOf(classes'[c], l))
                    /\ Len(ListOf(classes'[c], l)) <= Len(ListOf(classes[c], l)) + 1
                    /\ C8_Grows(c, l) =>
                         /\ \A c2 \in DOMAIN classes : \A l2 \in Lists :
                              C8_Grows(c2, l2) => (c2 = c /\ l2 = l)
                         /\ \E v \in C8_MemberDecls :
                              /\ C8_MemberDecl(v)
                              /\ Field(v.parts, 4) = c
                              /\ ListFor(v.parts) = l
                              /\ ListOf(classes'[c], l)[Len(ListOf(classes'[c], l))].c_fn_name
                                   = Unwrap(v.e.name)
                              /\ ProcessFunctionDecl(v.e)
          /\ \A c \in DOMAIN classes' \ DOMAIN classes :
               \A l \in Lists : ListOf(classes'[c], l) = <<>>
     /\ (Eligible /\ status' = "running") =>
          \A v \in C8_MemberDecls :
            (C8_MemberDecl(v) /\ ProcessFunctionDecl(v.e)) =>
               C8_Grows(Field(v.parts, 4), ListFor(v.parts))]_vars

C8_Witness ==
  /\ status = "done"
  /\ \E c \in DOMAIN classes :
       /\ Len(classes[c].methods) = 2
       /\ classes[c].methods[1].c_fn_name /= classes[c].methods[2].c_fn_name
       /\ output = Some([classes |-> classes])

(***************************************************************************)
(* C9: a well-formed `static___new` declaration for a known class always   *)
(* replaces the constructor slot by its own descriptor, a `drop`           *)
(* declaration the destructor slot, without warning or abort and without   *)
(* touching anything else; nothing else ever changes a slot, and a new     *)
(* class starts with both slots empty.                                     *)
(***************************************************************************)
\* the declarations of the alphabet whose identifier says `static___new`, or `drop`
C9_NewDecls ==
  {v \in DecodedFunctionDecls :
     /\ v.prefixed
     /\ HasField(v.parts, 6)
     /\ Field(v.parts, 3) = CLASS
     /\ Field(v.parts, 5) = STATIC
     /\ Field(v.parts, 6) = NEW_KW}

C9_DropDecls ==
  {v \in DecodedFunctionDecls :
     /\ v.prefixed
     /\ HasField(v.parts, 5)
     /\ Field(v.parts, 3) = CLASS
     /\ Field(v.parts, 5) = DROP}

\* such a declaration is eligible, of the recorded package and of a known class
C9_Accepted(v) ==
  /\ Eligible
  /\ Field(v.parts, 2) = Unwrap(namespace)
  /\ ContainsKey(classes, Field(v.parts, 4))

C9_Constructor(v) ==
  [class_name |-> Field(v.parts, 4),
   fn_name |-> QUAL \o Unwrap(namespace) \o COLONS \o Unwrap(v.e.name),
   c_fn_name |-> Unwrap(v.e.name),
   arg_names |-> [i \in 1..Len(v.e.args) |-> Unwrap(v.e.args[i].name)],
   arg_types |-> [i \in 1..Len(v.e.args) |-> FinchTypeFrom(Unwrap(v.e.args[i].type))],
   comments |-> v.e.comment]

C9_Destructor(v) ==
  [class_name |-> Field(v.parts, 4),
   fn_name |-> QUAL \o Unwrap(namespace) \o COLONS \o Unwrap(v.e.name),
   c_fn_name |-> Unwrap(v.e.name)]

C9_SlotsHoldLastDeclaration ==
  [][/\ \A v \in C9_NewDecls :
          (C9_Accepted(v) /\ ArgsResolved(v.e.args) /\ ProcessFunctionDecl(v.e)) =>
             /\ status' = "running" /\ IsNone(warning')
             /\ classes' =
                  [classes EXCEPT ![Field(v.parts, 4)].new = Some(C9_Constructor(v))]
     /\ \A v \in C9_DropDecls :
          (C9_Accepted(v) /\ ProcessFunctionDecl(v.e)) =>
             /\ status' = "running" /\ IsNone(warning')
             /\ classes' =
                  [classes EXCEPT ![Field(v.parts, 4)].drop = Some(C9_Destructor(v))]
     /\ classes' /= classes =>
          /\ \A c \in DOMAIN classes :
               /\ c \in DOMAIN classes'
               /\ classes'[c].new /= classes[c].new =>
                    \E v \in C9_NewDecls :
                      C9_Accepted(v) /\ Field(v.parts, 4) = c /\ ProcessFunctionDecl(v.e)
               /\ classes'[c].drop /= classes[c].drop =>
                    \E v \in C9_DropDecls :
                      C9_Accepted(v) /\ Field(v.parts, 4) = c /\ ProcessFunctionDecl(v.e)
          /\ \A c \in DOMAIN classes' \ DOMAIN classes :
               IsNone(classes'[c].new) /\ IsNone(classes'[c].drop)]_vars

C9_Witness ==
  /\ status = "done"
  /\ functions_seen = 2
  /\ DOMAIN classes = {WIDGET}
  /\ IsSome(classes[WIDGET].new)
  /\ Unwrap(classes[WIDGET].new).arg_names = <<"x">>
  /\ IsNone(classes[WIDGET].drop)
  /\ \A l \in Lists : ListOf(classes[WIDGET], l) = <<>>

(***************************************************************************)
(* C10: in package `pkg`, starting from an empty class table, the class    *)
(* alias leaves exactly the class Widget with nothing in it, and the       *)
(* zero-argument function                                                  *)
(* ___finch_bindgen___pkg___class___Widget___static___new that follows it  *)
(* leaves exactly the class Widget with a constructor and nothing else.    *)
(* The claim names the alias ___finch_bindgen___class___Widget; the        *)
(* amended claim names ___finch_bindgen___pkg___class___Widget.            *)
(***************************************************************************)
AliasWithoutPackage ==
  Entity("TypeAliasDecl", Some(Ident(<<CLASS, WIDGET>>)), <<>>, None, Some("doc"))
AliasWithPackage ==
  Entity("TypeAliasDecl", Some(Ident(<<PKG, CLASS, WIDGET>>)), <<>>, None, Some("doc"))
NewWithoutArguments ==
  Fn(<<PKG, CLASS, WIDGET, STATIC, NEW_KW>>, <<>>, Some(WidgetPtrTy))

\* the alias processed in package `pkg` on an empty class table
AfterAlias(alias) ==
  ProcessEntity(ParserState(TRUE, TRUE, Some(PKG), EmptyMap, log_enabled), alias)

\* the alias is processed on an empty class table, then the function in the
\* state the alias has left
C10_Scenario(alias) ==
  /\ (/\ in_finch /\ in_internal /\ namespace = Some(PKG)
      /\ classes = EmptyMap
      /\ ProcessTypeAliasDecl(alias)) =>
         /\ status' = "running"
         /\ DOMAIN classes' = {WIDGET}
         /\ classes'[WIDGET].name = WIDGET
         /\ IsNone(classes'[WIDGET].new)
         /\ IsNone(classes'[WIDGET].drop)
         /\ \A l \in Lists : ListOf(classes'[WIDGET], l) = <<>>
  /\ (/\ in_finch /\ in_internal /\ namespace = Some(PKG)
      /\ classes = AfterAlias(alias).st.classes
      /\ warning = AfterAlias(alias).warning
      /\ ProcessFunctionDecl(NewWithoutArguments)) =>
         /\ status' = "running"
         /\ DOMAIN classes' = {WIDGET}
         /\ classes'[WIDGET].name = WIDGET
         /\ IsSome(classes'[WIDGET].new)
         /\ Unwrap(classes'[WIDGET].new).arg_names = <<>>
         /\ IsNone(classes'[WIDGET].drop)
         /\ \A l \in Lists : ListOf(classes'[WIDGET], l) = <<>>

C10_ConstructorOnlyAsClaimed == [][C10_Scenario(AliasWithoutPackage)]_vars

C10_ConstructorOnly == [][C10_Scenario(AliasWithPackage)]_vars

C10_Witness ==
  /\ status = "done"
  /\ aliases_seen = 1
  /\ functions_seen = 1
  /\ namespace = Some(PKG)
  /\ DOMAIN classes = {WIDGET}
  /\ classes[WIDGET].c_name = Qualified(PKG, Ident(<<PKG, CLASS, WIDGET>>))
  /\ IsSome(classes[WIDGET].new)
  /\ Unwrap(classes[WIDGET].new).arg_names = <<>>
  /\ IsNone(classes[WIDGET].drop)
  /\ \A l \in Lists : ListOf(classes[WIDGET], l) = <<>>

(***************************************************************************)
(* C11: a method declaration (`method` or `method_consume`) for a known    *)
(* class with arguments [recv, a1, ..., an] appends a Method whose         *)
(* arg_names and arg_types are those of a1..an, in order: exactly the      *)
(* first argument is dropped.  A `static___new` declaration records all of *)
(* its arguments in the constructor, any other `static` declaration all of *)
(* its arguments in the appended static function.                          *)
(***************************************************************************)
C11_MethodDecls ==
  {v \in DecodedFunctionDecls :
     /\ v.prefixed
     /\ HasField(v.parts, 6)
     /\ Field(v.parts, 3) = CLASS
     /\ Field(v.parts, 5) \in {METHOD, METHOD_CONSUME}}

C11_StaticDecls ==
  {v \in DecodedFunctionDecls :
     /\ v.prefixed
     /\ HasField(v.parts, 6)
     /\ Field(v.parts, 3) = CLASS
     /\ Field(v.parts, 5) = STATIC}

\* the declaration is eligible, of the recorded package and of a known class
C11_Accepted(v) ==
  /\ Eligible
  /\ Field(v.parts, 2) = Unwrap(namespace)
  /\ ContainsKey(classes, Field(v.parts, 4))

\* names and types of the arguments from position `from` on
C11_NamesFrom(args, from) == [i \in 1..(Len(args) - from + 1) |-> Unwrap(args[i + from - 1].name)]
C11_TypesFrom(args, from) ==
  [i \in 1..(Len(args) - from + 1) |-> FinchTypeFrom(Unwrap(args[i + from - 1].type))]

C11_Last(list) == list[Len(list)]

C11_ReceiverStripped ==
  [][(Eligible /\ status' = "running") =>
       /\ \A v \in C11_MethodDecls :
            (C11_Accepted(v) /\ v.e.args /= <<>> /\ ProcessFunctionDecl(v.e)) =>
               LET cl == classes'[Field(v.parts, 4)] IN
               /\ Len(cl.methods) = Len(classes[Field(v.parts, 4)].methods) + 1
               /\ Len(C11_Last(cl.methods).arg_names) = Len(v.e.args) - 1
               /\ Len(C11_Last(cl.methods).arg_types) = Len(v.e.args) - 1
               /\ C11_Last(cl.methods).arg_names = C11_NamesFrom(v.e.args, 2)
               /\ C11_Last(cl.methods).arg_types = C11_TypesFrom(v.e.args, 2)
       /\ \A v \in C11_StaticDecls :
            (C11_Accepted(v) /\ ProcessFunctionDecl(v.e)) =>
               LET cl == classes'[Field(v.parts, 4)] IN
               IF Field(v.parts, 6) = NEW_KW
               THEN /\ IsSome(cl.new)
                    /\ Unwrap(cl.new).arg_names = C11_NamesFrom(v.e.args, 1)
                    /\ Unwrap(cl.new).arg_types = C11_TypesFrom(v.e.args, 1)
               ELSE /\ Len(cl.statics) = Len(classes[Field(v.parts, 4)].statics) + 1
                    /\ C11_Last(cl.statics).arg_names = C11_NamesFrom(v.e.args, 1)
                    /\ C11_Last(cl.statics).arg_types = C11_TypesFrom(v.e.args, 1)]_vars

C11_Witness ==
  /\ status = "done"
  /\ ContainsKey(classes, WIDGET)
  /\ Len(classes[WIDGET].methods) = 1
  /\ classes[WIDGET].methods[1].arg_names = <<"x", "n">>
  /\ classes[WIDGET].methods[1].arg_types = <<FinchTypeFrom(Int32Ty), FinchTypeFrom(IntTy)>>
  /\ Len(classes[WIDGET].statics) = 1
  /\ classes[WIDGET].statics[1].arg_names = <<"n", "x">>

(***************************************************************************)
(* C12: a `method` or `method_consume` declaration for a known class whose *)
(* argument list is empty aborts the run: no warning is emitted for it,    *)
(* no Method is appended, the class table is left as it was and nothing    *)
(* is returned.                                                            *)
(***************************************************************************)
C12_ReceiverMissing(v) == C11_Accepted(v) /\ v.e.args = <<>>

C12_MissingReceiverIsFatal ==
  [][Eligible =>
       \A v \in C11_MethodDecls :
         (C12_ReceiverMissing(v) /\ ProcessFunctionDecl(v.e)) =>
            /\ status' = "aborted"
            /\ panic' = Some(Panic(REMOVE_OOB, 98))
            /\ IsNone(warning')
            /\ classes' = classes
            /\ IsNone(output')]_vars

C12_Witness ==
  /\ Aborted
  /\ panic = Some(Panic(REMOVE_OOB, 98))
  /\ ContainsKey(classes, WIDGET)
  /\ classes[WIDGET].methods = <<>>
  /\ IsNone(output)

(***************************************************************************)
(* C13: a processing step that emits a warning changes nothing but the     *)
(* warning: the class table, the flags and the package namespace stay as   *)
(* they were, the warned node is not recursed into and the run goes on.    *)
(* A run therefore ends as the run without the warned nodes does.          *)
(***************************************************************************)
\* a call of process_entity has just returned with a warning
C13_WarningEmitted == IsSome(warning') /\ ~EndChildren /\ ~ProcessTranslationUnit

C13_WarningsLeaveTableAlone ==
  [][C13_WarningEmitted =>
       /\ classes' = classes
       /\ in_finch' = in_finch /\ in_internal' = in_internal /\ namespace' = namespace
       /\ stack' = stack
       /\ status' = "running"
       /\ output' = output]_vars

C13_Witness ==
  /\ status = "running"
  /\ IsSome(warning)
  /\ Unwrap(warning).msg = UNKNOWN_IDENTIFIER
  /\ ContainsKey(classes, WIDGET)
  /\ classes[WIDGET].methods /= <<>>

(***************************************************************************)
(* C14: a function declaration decoded for a known class X with category   *)
(* keyword k leaves every class but X, and every component of X but one,   *)
(* as it was: `drop` sets the destructor slot, `method` appends to methods *)
(* an entry with consume = FALSE, `method_consume` one with consume =      *)
(* TRUE, `static___new` sets the constructor slot, any other `static`      *)
(* appends to statics, `getter` to getters, `setter` to setters.           *)
(***************************************************************************)
Components ==
  {"name", "c_name", "comments", "new", "drop", "statics", "methods", "getters", "setters"}

Component(class, f) ==
  CASE f = "name" -> class.name
    [] f = "c_name" -> class.c_name
    [] f = "comments" -> class.comments
    [] f = "new" -> class.new
    [] f = "drop" -> class.drop
    [] f = "statics" -> class.statics
    [] f = "methods" -> class.methods
    [] f = "getters" -> class.getters
    [] f = "setters" -> class.setters

\* the component the category keyword selects
C14_Target(parts) ==
  LET k == Field(parts, 5) IN
  IF k = DROP THEN "drop"
  ELSE IF k = STATIC /\ Field(parts, 6) = NEW_KW THEN "new"
  ELSE ListFor(parts)

\* the declarations of the alphabet whose identifier carries a category keyword
C14_MemberDecls ==
  {v \in DecodedFunctionDecls :
     /\ v.prefixed
     /\ HasField(v.parts, 5)
     /\ Field(v.parts, 3) = CLASS
     /\ \/ Field(v.parts, 5) = DROP
        \/ HasField(v.parts, 6) /\ Field(v.parts, 5) \in {METHOD, METHOD_CONSUME, STATIC, GETTER, SETTER}}

C14_OneComponentChanges ==
  [][(Eligible /\ status' = "running") =>
       \A v \in C14_MemberDecls :
         (C11_Accepted(v) /\ ProcessFunctionDecl(v.e)) =>
            LET X == Field(v.parts, 4)
                t == C14_Target(v.parts)
                k == Field(v.parts, 5) IN
            /\ IsNone(warning')
            /\ DOMAIN classes' = DOMAIN classes
            /\ \A c \in DOMAIN classes \ {X} : classes'[c] = classes[c]
            /\ \A f \in Components \ {t} : Component(classes'[X], f) = Component(classes[X], f)
            /\ IF t \in {"new", "drop"}
               THEN /\ IsSome(Component(classes'[X], t))
                    /\ Unwrap(Component(classes'[X], t)).c_fn_name = Unwrap(v.e.name)
               ELSE /\ Len(Component(classes'[X], t)) = Len(Component(classes[X], t)) + 1
                    /\ IsPrefix(Component(classes[X], t), Component(classes'[X], t))
                    /\ C11_Last(Component(classes'[X], t)).c_fn_name = Unwrap(v.e.name)
                    /\ k = METHOD => C11_Last(classes'[X].methods).consume = FALSE
                    /\ k = METHOD_CONSUME => C11_Last(classes'[X].methods).consume = TRUE]_vars

C14_Witness ==
  /\ status = "done"
  /\ DOMAIN classes = {WIDGET, GADGET}
  /\ Len(classes[WIDGET].methods) = 1
  /\ classes[WIDGET].methods[1].consume = TRUE
  /\ IsSome(classes[GADGET].drop)
  /\ IsNone(classes[WIDGET].drop)
  /\ IsNone(classes[WIDGET].new)
  /\ classes[WIDGET].statics = <<>>

(***************************************************************************)
(* C15: once the root namespace has been entered, a namespace node that    *)
(* matches none of the entering transitions (the internal marker while the *)
(* internal namespace is not entered, any namespace while both flags are   *)
(* set and no package namespace is recorded) gets a warning and is not     *)
(* recursed into; the flags, the package namespace and the class table     *)
(* stay as they are and the run goes on.                                   *)
(***************************************************************************)
C15_Unexpected(e) ==
  /\ in_finch
  /\ ~(~in_internal /\ e.name = Some(BINDGEN))
  /\ ~(in_internal /\ IsNone(namespace))

C15_UnexpectedNamespaceSkipped ==
  [][in_finch =>
       \A e \in Namespaces :
         (C15_Unexpected(e) /\ ProcessNamespace(e)) =>
            /\ IsSome(warning')
            /\ status' = "running"
            /\ stack' = stack
            /\ in_finch' = in_finch /\ in_internal' = in_internal
            /\ namespace' = namespace
            /\ classes' = classes]_vars

(***************************************************************************)
(* C16: an unexposed-declaration wrapper is transparent in every traversal *)
(* state: whenever one is visited, also before the root or the internal    *)
(* namespace has been entered, its children are visited next and the       *)
(* traversal state is left as it is.                                       *)
(***************************************************************************)
C16_WrapperTransparent ==
  [][\A e \in UnexposedDecls :
       ProcessUnexposedDecl(e) =>
         /\ stack' = Append(stack, e)
         /\ in_finch' = in_finch /\ in_internal' = in_internal
         /\ namespace' = namespace
         /\ classes' = classes]_vars

(***************************************************************************)
(* C17: an eligible type-alias or function declaration whose identifier    *)
(* has the prefix, the recorded package namespace in field 2 and a field 3 *)
(* other than `class` is skipped with the unknown-identifier warning and   *)
(* does not abort the run, whether field 4 is absent or names a class that *)
(* is not in the table; the class table and the rest of the traversal      *)
(* state are left as they are.                                             *)
(***************************************************************************)
C17_OtherCategoryDecls ==
  {v \in DecodedDecls : v.prefixed /\ HasField(v.parts, 3) /\ Field(v.parts, 3) /= CLASS}

C17_OtherCategorySkipped ==
  [][Eligible =>
       \A v \in C17_OtherCategoryDecls :
         (Field(v.parts, 2) = Unwrap(namespace) /\ ProcessDecl(v.e)) =>
            /\ status' = "running"
            /\ IsNone(panic')
            /\ IsSome(warning') /\ Unwrap(warning').msg = UNKNOWN_IDENTIFIER
            /\ classes' = classes
            /\ stack' = stack
            /\ in_finch' = in_finch /\ in_internal' = in_internal
            /\ namespace' = namespace]_vars

\* the category `func` of a declaration for Widget has been reported while
\* Widget is not in the table
C17_Witness ==
  /\ status = "running"
  /\ namespace = Some(PKG)
  /\ WIDGET \notin DOMAIN classes
  /\ warning = Some(Warning(UNKNOWN_IDENTIFIER, <<FUNC>>))

(***************************************************************************)
(* C18: the warning written for a package-namespace mismatch reports the   *)
(* recorded package namespace as the expected value and field 2 of the     *)
(* identifier, the field that was compared, as the value found.            *)
(***************************************************************************)
C18_MismatchedDecls == {v \in DecodedDecls : v.prefixed /\ HasField(v.parts, 2)}

C18_MismatchReportsComparedField ==
  [][(Eligible /\ log_enabled) =>
       \A v \in C18_MismatchedDecls :
         (Field(v.parts, 2) /= Unwrap(namespace) /\ ProcessDecl(v.e)) =>
            warning' = Some(Warning(NAMESPACE_MISMATCH,
                                    <<Unwrap(namespace), Field(v.parts, 2)>>))]_vars

(***************************************************************************)
(* C19: in every reachable state the descriptor stored under key K has     *)
(* name K, and its constructor, its destructor and every entry of its      *)
(* methods, statics, getters and setters has class_name K and comes from   *)
(* an identifier whose field 4 is K.                                       *)
(***************************************************************************)
C19_Members(class) ==
  {class.new[i] : i \in DOMAIN class.new} \cup {class.drop[i] : i \in DOMAIN class.drop}
    \cup {class.methods[i] : i \in DOMAIN class.methods}
    \cup {class.statics[i] : i \in DOMAIN class.statics}
    \cup {class.getters[i] : i \in DOMAIN class.getters}
    \cup {class.setters[i] : i \in DOMAIN class.setters}

C19_MembersBelongToTheirClass ==
  \A K \in DOMAIN classes :
    /\ classes[K].name = K
    /\ \A m \in C19_Members(classes[K]) :
         /\ m.class_name = K
         /\ HasField(SplitName[m.c_fn_name], 4)
         /\ Field(SplitName[m.c_fn_name], 4) = K

\* two classes, each holding a member of its own
C19_Witness ==
  /\ status = "done"
  /\ DOMAIN classes = {WIDGET, GADGET}
  /\ IsSome(classes[GADGET].drop)
  /\ Len(classes[WIDGET].setters) = 1

(***************************************************************************)
(* C20: the package namespace is assigned at most once in a run, in a      *)
(* state where both flags are true, and is never cleared or overwritten    *)
(* afterwards; each flag, once true, stays true; so in every reachable     *)
(* state a recorded package namespace implies that both flags are set.     *)
(***************************************************************************)
C20_Step ==
  /\ in_finch => in_finch'
  /\ in_internal => in_internal'
  /\ IsSome(namespace) => namespace' = namespace
  /\ namespace' /= namespace => BothFlags /\ IsNone(namespace) /\ IsSome(namespace')

C20_PackageAssignedOnce ==
  /\ [](IsSome(namespace) => BothFlags)
  /\ [][C20_Step]_vars

\* a second namespace was met after the package namespace had been recorded
C20_Witness ==
  /\ status = "running"
  /\ BothFlags
  /\ namespace = Some(PKG)
  /\ warning = Some(Warning(UNKNOWN_NAMESPACE, <<OTHER_PKG>>))

====
